---- MODULE Spec2Model ----
(***************************************************************************)
(* State-machine model of the deal.II / preCICE coupling adapter           *)
(* (src/adapter/adapter_smp.h) and of its parameter block                  *)
(* (src/adapter/precice_parameter.h).                                      *)
(*                                                                         *)
(* The coupling library (precice::SolverInterface), the discretization     *)
(* (DoFHandler, FEFaceValues, Quadrature) and the caller are the           *)
(* environment.  Assert / AssertIndexRange are modelled as in a build      *)
(* with assertions enabled: a failed assertion aborts the program.         *)
(***************************************************************************)
EXTENDS Integers, Sequences, FiniteSets, TLC

VARIABLES
  pc,               \* "parse" | "construct" | "run" | "abort"
  error,            \* "none", or the kind of the fatal error that ended the run
  prm,              \* ParameterHandler entries of "precice configuration"
  parameters,       \* PreciceAdapterConfiguration members
  \* ---- Adapter members
  dim,              \* template parameter dim
  read_mesh_name,
  write_mesh_name,
  read_mesh_id,
  write_mesh_id,
  read_data_id,
  write_data_id,
  read_nodes_ids,   \* std::vector<int>, as a sequence
  write_nodes_ids,
  read_id_map,      \* std::map<unsigned,unsigned>, as a function
  read_data,        \* std::vector<double>, as a sequence
  old_state_data,   \* std::vector<VectorType>, as a sequence of vectors
  old_time_value,   \* double: <<>> while uninitialized, <<t>> once assigned
  \* ---- precice::SolverInterface (environment)
  precice_dimensions,
  precice_vertices,   \* mesh id -> sequence of registered coordinates
  precice_data,       \* data id -> sequence of values, one per vertex handle
  precice_actions,    \* set of actions currently required
  precice_initialized,
  calls,              \* library calls made by the operation that ran last
  \* ---- caller
  state_variables,    \* the caller's list of state vectors
  time_class,         \* Time::current()
  checkpoint,         \* what the caller passed to the latest signalled save
  enumerated,         \* the mesh and quadrature rules of the latest enumeration
  initialize_calls,   \* initialize() calls made so far
  last                \* the operation that ran last, its inputs and result

cfgvars  == <<pc, error, prm, parameters>>
adpvars  == <<dim, read_mesh_name, write_mesh_name, read_mesh_id, write_mesh_id,
              read_data_id, write_data_id>>
meshvars == <<read_nodes_ids, write_nodes_ids, read_id_map, read_data>>
ckptvars == <<old_state_data, old_time_value>>
libvars  == <<precice_dimensions, precice_vertices, precice_data, precice_actions,
              precice_initialized, calls>>
callvars == <<state_variables, time_class, checkpoint, enumerated,
              initialize_calls>>
vars     == <<cfgvars, adpvars, meshvars, ckptvars, libvars, callvars, last>>

----------------------------------------------------------------------------
(* Bounds of the model *)
MaxInit    == 2   \* initialize() calls per run
MaxQuad    == 2   \* quadrature points per face
MaxVectors == 2   \* length of the caller's state-vector list
MaxEpoch   == 1   \* distinct data sets the coupling peer delivers

----------------------------------------------------------------------------
(* Parameter block: precice_parameter.h *)

Default == "default"

\* values a parameter file may give to the three mesh-name entries
MeshNames == {"default", "Fluid-Mesh", "Solid-Mesh", "Interface"}

read_data_name  == "received-data"
write_data_name == "calculated-data"

Unparsed == [mesh_name |-> "", read_mesh_name |-> "", write_mesh_name |-> ""]

\* prm.get(...) of the three entries
GetEntries(p) ==
  [mesh_name       |-> p["Mesh name"],
   read_mesh_name  |-> p["Read mesh name"],
   write_mesh_name |-> p["Write mesh name"]]

\* the AssertThrow conditions of the branch that mesh_name selects
ParseAccepts(s) ==
  IF s.mesh_name # Default
    THEN s.mesh_name # s.read_mesh_name
    ELSE /\ (Default # s.read_mesh_name) /\ (Default # s.write_mesh_name)
         /\ Default = s.mesh_name

\* mutant: only read_mesh_name is assigned in the first branch
ParsedNamesReadOnly(s) ==
  IF s.mesh_name # Default
    THEN [s EXCEPT !.read_mesh_name = s.mesh_name]
    ELSE s

\* the assignments of the branch that mesh_name selects
ParsedNames(s) ==
  IF s.mesh_name # Default
    THEN [s EXCEPT !.read_mesh_name = s.mesh_name, !.write_mesh_name = s.mesh_name]
    ELSE s

parse_parameters ==
  /\ pc = "parse"
  /\ LET s == GetEntries(prm) IN
       IF ParseAccepts(s)
         THEN /\ parameters' = ParsedNames(s)
              /\ pc' = "construct"
              /\ error' = "none"
         ELSE /\ parameters' = s
              /\ pc' = "abort"
              /\ error' = "ExcMessage"
  /\ last' = [op |-> "parse_parameters"]
  /\ UNCHANGED <<prm, adpvars, meshvars, ckptvars, libvars, callvars>>

----------------------------------------------------------------------------
(* Discretization (environment): DoFHandler traversal, FEFaceValues *)

dealii_boundary_interface_id == 1

\* A mesh is the sequence of faces that the loops
\*   for cell in active_cell_iterators() / for face in cell->face_iterators()
\* visit, in that order.  boundary_id 255 marks an interior face.
CoarseMesh ==
  << [face_index |-> 0, at_boundary |-> TRUE,  boundary_id |-> 1],
     [face_index |-> 1, at_boundary |-> TRUE,  boundary_id |-> 0],
     [face_index |-> 2, at_boundary |-> FALSE, boundary_id |-> 255],
     [face_index |-> 3, at_boundary |-> TRUE,  boundary_id |-> 1] >>

\* the mesh after an adaptation: face 0 is gone, face 3 is visited first
AdaptedMesh ==
  << [face_index |-> 3, at_boundary |-> TRUE,  boundary_id |-> 1],
     [face_index |-> 4, at_boundary |-> FALSE, boundary_id |-> 255],
     [face_index |-> 1, at_boundary |-> TRUE,  boundary_id |-> 0] >>

Meshes == {CoarseMesh, AdaptedMesh}

Quadratures == 1..MaxQuad       \* a quadrature rule is its number of points

Fields == {1, 2}                \* the solution vectors a caller passes

\* mutant: the boundary id of the face is not compared
OnAnyBoundary(face) == face.at_boundary = TRUE

\* face->at_boundary() == true && face->boundary_id() == dealii_boundary_interface_id
OnInterface(face) ==
  face.at_boundary = TRUE /\ face.boundary_id = dealii_boundary_interface_id

\* fe_face_values.quadrature_point(q) after reinit(cell, face)
QuadraturePoint(face, nq, q) ==
  [d \in 1..dim |-> IF d = 1 THEN face.face_index
                    ELSE IF d = 2 THEN 10 * nq + q ELSE 0]

\* fe_face_values.get_function_values(data, quad_values): quad_values[q]
FunctionValues(data, face, nq, q) ==
  [d \in 1..dim |-> 1000 * data + 100 * face.face_index + 10 * q + d]

----------------------------------------------------------------------------
(* Coupling library (environment): precice::SolverInterface *)

WriteInitialData         == "write-initial-data"
WriteIterationCheckpoint == "write-iteration-checkpoint"
ReadIterationCheckpoint  == "read-iteration-checkpoint"

ConfiguredMeshes == <<"Fluid-Mesh", "Solid-Mesh", "Interface">>
MeshIDs == 0..(Len(ConfiguredMeshes) - 1)
DataIDs == {read_data_name, write_data_name} \X MeshIDs

\* precice.getMeshID(name)
getMeshID(name) == (CHOOSE i \in 1..Len(ConfiguredMeshes) : ConfiguredMeshes[i] = name) - 1

\* precice.getDataID(name, mesh)
getDataID(name, mesh) == <<name, mesh>>

ZeroValue == [d \in 1..dim |-> 0]

\* the data the coupling peer delivers for a vertex in its e-th data set
PeerValue(e, handle) == [d \in 1..dim |-> 5000 + 1000 * e + 10 * handle + d]

\* the library state lib = [vertices, data] after setMeshVertex(mesh, coord);
\* the handle it returns is the number of vertices the mesh had before
VertexHandle(lib, mesh) == Len(lib.vertices[mesh])

RegisterVertex(lib, mesh, coord) ==
  [vertices |-> [lib.vertices EXCEPT ![mesh] = Append(@, coord)],
   data     |-> [id \in DOMAIN lib.data |->
                   IF id[2] = mesh THEN Append(lib.data[id], ZeroValue)
                                   ELSE lib.data[id]]]

\* the peer's data set e arrives for every vertex of the data's mesh
Deliver(data, id, e) ==
  [data EXCEPT ![id] = [k \in 1..Len(@) |-> PeerValue(e, k - 1)]]

\* a mock peer: it returns, for every vertex handle, the value that was written
\* to that handle of the data wid in this step
Echo(written, data, id, wid) ==
  [data EXCEPT ![id] = [k \in 1..Len(@) |->
     IF k <= Len(written[wid]) THEN written[wid][k] ELSE @[k]]]

\* the data set number that stands for the echo of the mock peer
EchoEpoch == MaxEpoch + 1

\* the library sends the written values to the peer and clears its write buffer
\* (in advance() and in initializeData())
ResetWritten(data, id) == [data EXCEPT ![id] = [k \in 1..Len(@) |-> ZeroValue]]

\* writeVectorData(id, handle, value)
StoreValue(data, id, handle, value) == [data EXCEPT ![id][handle + 1] = value]

\* readBlockVectorData(id, size, ids, out): size * dim scalars, vertex by vertex
BlockValues(data, id, ids) ==
  [k \in 1..(Len(ids) * dim) |->
     data[id][ids[((k - 1) \div dim) + 1] + 1][((k - 1) % dim) + 1]]

----------------------------------------------------------------------------
(* Adapter::set_mesh_vertices                                              *)
(* a is the part of the program state the function works on:               *)
(*   [read_mesh_id, write_mesh_id, read_nodes_ids, write_nodes_ids,        *)
(*    read_id_map, lib, calls]                                             *)

\* read_id_map[key] = value
MapAssign(map, key, value) ==
  [k \in (DOMAIN map) \cup {key} |-> IF k = key THEN value ELSE map[k]]

NodesOf(a, is_read_mesh) ==
  IF is_read_mesh THEN a.read_nodes_ids ELSE a.write_nodes_ids

\* interface_nodes_ids.emplace_back(precice.setMeshVertex(mesh_id, vertex.data()))
EmplaceVertex(a, is_read_mesh, mesh_id, vertex) ==
  LET handle == VertexHandle(a.lib, mesh_id)
      logged == Append(a.calls, [call |-> "setMeshVertex", mesh |-> mesh_id,
                                 vertex |-> vertex, ret |-> handle])
      lib2   == RegisterVertex(a.lib, mesh_id, vertex)
  IN IF is_read_mesh
       THEN [a EXCEPT !.read_nodes_ids = Append(@, handle),
                      !.lib = lib2, !.calls = logged]
       ELSE [a EXCEPT !.write_nodes_ids = Append(@, handle),
                      !.lib = lib2, !.calls = logged]

\* the loop over fe_face_values.quadrature_point_indices(), from point q on
RECURSIVE RegisterPoints(_, _, _, _, _, _)
RegisterPoints(a, is_read_mesh, mesh_id, face, nq, q) ==
  IF q >= nq THEN a
  ELSE LET q_point == QuadraturePoint(face, nq, q)
           vertex  == [d \in 1..dim |-> q_point[d]]
       IN RegisterPoints(EmplaceVertex(a, is_read_mesh, mesh_id, vertex),
                         is_read_mesh, mesh_id, face, nq, q + 1)

\* if (is_read_mesh) read_id_map[face_index] = interface_nodes_ids.size()
RecordFace(a, is_read_mesh, face) ==
  IF is_read_mesh
    THEN [a EXCEPT !.read_id_map =
            MapAssign(@, face.face_index, Len(NodesOf(a, is_read_mesh)))]
    ELSE a

\* the loop over cells and faces, from position i of the traversal on
RECURSIVE RegisterFaces(_, _, _, _, _, _)
RegisterFaces(a, is_read_mesh, mesh_id, dof_handler, nq, i) ==
  IF i > Len(dof_handler) THEN a
  ELSE IF OnInterface(dof_handler[i])
    THEN RegisterFaces(
           RegisterPoints(RecordFace(a, is_read_mesh, dof_handler[i]),
                          is_read_mesh, mesh_id, dof_handler[i], nq, 0),
           is_read_mesh, mesh_id, dof_handler, nq, i + 1)
    ELSE RegisterFaces(a, is_read_mesh, mesh_id, dof_handler, nq, i + 1)

set_mesh_vertices(a, dof_handler, quadrature, is_read_mesh) ==
  LET mesh_id == IF is_read_mesh THEN a.read_mesh_id ELSE a.write_mesh_id
  IN RegisterFaces(a, is_read_mesh, mesh_id, dof_handler, quadrature, 1)

----------------------------------------------------------------------------
(* Adapter::write_all_quadrature_nodes                                     *)
(* w = [index, data, calls, failed]: the iterator into write_nodes_ids (as *)
(* the number of increments since begin()), the library's data, the call   *)
(* log, and whether Assert(index != write_nodes_ids.end()) has failed.     *)

\* mutant: the components are copied in reverse order
WritePointReversesComponents(w, nodes_ids, data_id, quad_value) ==
  IF w.index = Len(nodes_ids)
    THEN [w EXCEPT !.failed = TRUE]
    ELSE LET local_data == [d \in 1..dim |-> quad_value[dim + 1 - d]]
             handle     == nodes_ids[w.index + 1]
         IN [w EXCEPT
               !.data  = StoreValue(@, data_id, handle, local_data),
               !.calls = Append(@, [call |-> "writeVectorData", id |-> data_id,
                                    handle |-> handle, value |-> local_data]),
               !.index = @ + 1]

\* mutant: the value sent is the one the library holds for the vertex in the
\* received data instead of the field's value
WritePointSendsReceived(w, nodes_ids, data_id, quad_value) ==
  IF w.index = Len(nodes_ids)
    THEN [w EXCEPT !.failed = TRUE]
    ELSE LET handle     == nodes_ids[w.index + 1]
             local_data == w.data[<<read_data_name, data_id[2]>>][handle + 1]
         IN [w EXCEPT
               !.data  = StoreValue(@, data_id, handle, local_data),
               !.calls = Append(@, [call |-> "writeVectorData", id |-> data_id,
                                    handle |-> handle, value |-> local_data]),
               !.index = @ + 1]

\* mutant: the end check fires one handle early
WritePointStopsEarly(w, nodes_ids, data_id, quad_value) ==
  IF w.index + 1 >= Len(nodes_ids)
    THEN [w EXCEPT !.failed = TRUE]
    ELSE LET local_data == [d \in 1..dim |-> quad_value[d]]
             handle     == nodes_ids[w.index + 1]
         IN [w EXCEPT
               !.data  = StoreValue(@, data_id, handle, local_data),
               !.calls = Append(@, [call |-> "writeVectorData", id |-> data_id,
                                    handle |-> handle, value |-> local_data]),
               !.index = @ + 1]

\* one pass of the body of the loop over the quadrature points
WritePoint(w, nodes_ids, data_id, quad_value) ==
  IF w.index = Len(nodes_ids)
    THEN [w EXCEPT !.failed = TRUE]
    ELSE LET local_data == [d \in 1..dim |-> quad_value[d]]
             handle     == nodes_ids[w.index + 1]
         IN [w EXCEPT
               !.data  = StoreValue(@, data_id, handle, local_data),
               !.calls = Append(@, [call |-> "writeVectorData", id |-> data_id,
                                    handle |-> handle, value |-> local_data]),
               !.index = @ + 1]

RECURSIVE WritePoints(_, _, _, _, _, _, _)
WritePoints(w, nodes_ids, data_id, data, face, nq, q) ==
  IF w.failed \/ q >= nq THEN w
  ELSE WritePoints(WritePoint(w, nodes_ids, data_id,
                              FunctionValues(data, face, nq, q)),
                   nodes_ids, data_id, data, face, nq, q + 1)

RECURSIVE WriteFaces(_, _, _, _, _, _, _)
WriteFaces(w, nodes_ids, data_id, data, dof_handler, nq, i) ==
  IF w.failed \/ i > Len(dof_handler) THEN w
  ELSE IF OnInterface(dof_handler[i])
    THEN WriteFaces(WritePoints(w, nodes_ids, data_id, data, dof_handler[i], nq, 0),
                    nodes_ids, data_id, data, dof_handler, nq, i + 1)
    ELSE WriteFaces(w, nodes_ids, data_id, data, dof_handler, nq, i + 1)

\* the pass, started with the library data and call log it finds
write_all_quadrature_nodes(nodes_ids, data_id, lib_data, log, data, dof_handler, write_quadrature) ==
  WriteFaces([index |-> 0, data |-> lib_data, calls |-> log, failed |-> FALSE],
             nodes_ids, data_id, data, dof_handler, write_quadrature, 1)

----------------------------------------------------------------------------
(* Adapter::Adapter *)

EmptyMap == [k \in {} |-> 0]

Adapter ==
  /\ pc = "construct"
  /\ pc' = "run"
  /\ read_mesh_name'  = parameters.read_mesh_name
  /\ write_mesh_name' = parameters.write_mesh_name
  /\ last' = [op |-> "Adapter"]
  /\ UNCHANGED <<error, prm, parameters, dim, read_mesh_id, write_mesh_id,
                 read_data_id, write_data_id, meshvars, ckptvars, libvars,
                 callvars>>

----------------------------------------------------------------------------
(* Adapter::initialize *)

\* mutant: the buffer keeps the length it had
ResizeSkipped(vec, n) == vec

\* std::vector<double>::resize(n)
Resize(vec, n) == [k \in 1..n |-> IF k <= Len(vec) THEN vec[k] ELSE 0]

\* readBlockVectorData writes its values over the front of the buffer
Overwrite(buffer, values) ==
  [k \in 1..Len(buffer) |-> IF k <= Len(values) THEN values[k] ELSE buffer[k]]

\* the operation ends the program with a fatal error
Abort(kind) == pc' = "abort" /\ error' = kind

\* mutant: the dimension of the library is not compared with dim
DimensionCheckSkipped == FALSE

\* the negation of AssertThrow(dim == precice.getDimensions(), ExcMessage(...))
DimensionMismatch == dim # precice_dimensions

\* mutant: the action is marked fulfilled after initializeData() instead of before
initialize_marking_late(dof_handler, write_quadrature, read_quadrature, dealii_to_precice, raised, e) ==
  /\ pc = "run"
  /\ initialize_calls < MaxInit
  /\ initialize_calls' = initialize_calls + 1
  /\ last' = [op |-> "initialize", dof_handler |-> dof_handler,
              write_quadrature |-> write_quadrature,
              read_quadrature |-> read_quadrature, data |-> dealii_to_precice,
              write_required |-> WriteInitialData \in raised]
  /\ UNCHANGED <<prm, parameters, dim, read_mesh_name, write_mesh_name,
                 ckptvars, precice_dimensions, state_variables, time_class,
                 checkpoint>>
  /\ IF DimensionMismatch \/ ~(dim > 1)
       THEN /\ Abort(IF DimensionMismatch THEN "ExcMessage"
                                          ELSE "ExcNotImplemented")
            /\ calls' = <<[call |-> "getDimensions", ret |-> precice_dimensions]>>
            /\ UNCHANGED <<read_mesh_id, write_mesh_id, read_data_id,
                           write_data_id, meshvars, precice_vertices,
                           precice_data, precice_actions, precice_initialized,
                           enumerated>>
       ELSE
         LET rmesh == getMeshID(read_mesh_name)
             rdata == getDataID(read_data_name, rmesh)
             wmesh == getMeshID(write_mesh_name)
             wdata == getDataID(write_data_name, wmesh)
             a0 == [read_mesh_id |-> rmesh, write_mesh_id |-> wmesh,
                    read_nodes_ids |-> read_nodes_ids,
                    write_nodes_ids |-> write_nodes_ids,
                    read_id_map |-> read_id_map,
                    lib |-> [vertices |-> precice_vertices, data |-> precice_data],
                    calls |-> <<[call |-> "getDimensions",
                                 ret |-> precice_dimensions]>>]
             a1 == set_mesh_vertices(a0, dof_handler, write_quadrature, FALSE)
             a2 == set_mesh_vertices(a1, dof_handler, read_quadrature, TRUE)
             resized == Resize(read_data, Len(a2.read_nodes_ids) * dim)
             \* precice.initialize(): the first data set arrives and the
             \* library raises the actions of its coupling scheme
             data1  == Deliver(a2.lib.data, rdata, e)
             calls1 == Append(a2.calls, [call |-> "initialize"])
             required == WriteInitialData \in raised
             w == IF required
                    THEN write_all_quadrature_nodes(a2.write_nodes_ids, wdata,
                           data1, calls1, dealii_to_precice, dof_handler,
                           write_quadrature)
                    ELSE [index |-> 0, data |-> data1, calls |-> calls1,
                          failed |-> FALSE]
             calls2 == IF required
                         THEN w.calls \o
                              <<[call |-> "initializeData"],
                                [call |-> "markActionFulfilled",
                                 action |-> WriteInitialData]>>
                         ELSE w.calls
             data2 == IF required THEN ResetWritten(w.data, wdata) ELSE w.data
         IN /\ enumerated' = [dof_handler |-> dof_handler,
                              write_quadrature |-> write_quadrature,
                              read_quadrature |-> read_quadrature]
            /\ read_mesh_id' = rmesh
            /\ read_data_id' = rdata
            /\ write_mesh_id' = wmesh
            /\ write_data_id' = wdata
            /\ read_nodes_ids' = a2.read_nodes_ids
            /\ write_nodes_ids' = a2.write_nodes_ids
            /\ read_id_map' = a2.read_id_map
            /\ precice_vertices' = a2.lib.vertices
            /\ precice_initialized' = TRUE
            /\ IF w.failed
                 THEN /\ Abort("ExcInternalError")
                      /\ precice_data' = w.data
                      /\ read_data' = resized
                      /\ precice_actions' = raised
                      /\ calls' = w.calls
                 ELSE /\ UNCHANGED <<pc, error>>
                      /\ precice_data' = data2
                      /\ read_data' = Overwrite(resized,
                           BlockValues(data2, rdata, a2.read_nodes_ids))
                      /\ precice_actions' = raised \ {WriteInitialData}
                      /\ calls' = Append(calls2,
                           [call |-> "readBlockVectorData", id |-> rdata,
                            size |-> Len(a2.read_nodes_ids),
                            ids |-> a2.read_nodes_ids])

initialize(dof_handler, write_quadrature, read_quadrature, dealii_to_precice, raised, e) ==
  /\ pc = "run"
  /\ initialize_calls < MaxInit
  /\ initialize_calls' = initialize_calls + 1
  /\ last' = [op |-> "initialize", dof_handler |-> dof_handler,
              write_quadrature |-> write_quadrature,
              read_quadrature |-> read_quadrature, data |-> dealii_to_precice,
              write_required |-> WriteInitialData \in raised]
  /\ UNCHANGED <<prm, parameters, dim, read_mesh_name, write_mesh_name,
                 ckptvars, precice_dimensions, state_variables, time_class,
                 checkpoint>>
  /\ IF DimensionMismatch \/ ~(dim > 1)
       THEN /\ Abort(IF DimensionMismatch THEN "ExcMessage"
                                          ELSE "ExcNotImplemented")
            /\ calls' = <<[call |-> "getDimensions", ret |-> precice_dimensions]>>
            /\ UNCHANGED <<read_mesh_id, write_mesh_id, read_data_id,
                           write_data_id, meshvars, precice_vertices,
                           precice_data, precice_actions, precice_initialized,
                           enumerated>>
       ELSE
         LET rmesh == getMeshID(read_mesh_name)
             rdata == getDataID(read_data_name, rmesh)
             wmesh == getMeshID(write_mesh_name)
             wdata == getDataID(write_data_name, wmesh)
             a0 == [read_mesh_id |-> rmesh, write_mesh_id |-> wmesh,
                    read_nodes_ids |-> read_nodes_ids,
                    write_nodes_ids |-> write_nodes_ids,
                    read_id_map |-> read_id_map,
                    lib |-> [vertices |-> precice_vertices, data |-> precice_data],
                    calls |-> <<[call |-> "getDimensions",
                                 ret |-> precice_dimensions]>>]
             a1 == set_mesh_vertices(a0, dof_handler, write_quadrature, FALSE)
             a2 == set_mesh_vertices(a1, dof_handler, read_quadrature, TRUE)
             resized == Resize(read_data, Len(a2.read_nodes_ids) * dim)
             \* precice.initialize(): the first data set arrives and the
             \* library raises the actions of its coupling scheme
             data1  == Deliver(a2.lib.data, rdata, e)
             calls1 == Append(a2.calls, [call |-> "initialize"])
             required == WriteInitialData \in raised
             w == IF required
                    THEN write_all_quadrature_nodes(a2.write_nodes_ids, wdata,
                           data1, calls1, dealii_to_precice, dof_handler,
                           write_quadrature)
                    ELSE [index |-> 0, data |-> data1, calls |-> calls1,
                          failed |-> FALSE]
             calls2 == IF required
                         THEN w.calls \o
                              <<[call |-> "markActionFulfilled",
                                 action |-> WriteInitialData],
                                [call |-> "initializeData"]>>
                         ELSE w.calls
             data2 == IF required THEN ResetWritten(w.data, wdata) ELSE w.data
         IN /\ enumerated' = [dof_handler |-> dof_handler,
                              write_quadrature |-> write_quadrature,
                              read_quadrature |-> read_quadrature]
            /\ read_mesh_id' = rmesh
            /\ read_data_id' = rdata
            /\ write_mesh_id' = wmesh
            /\ write_data_id' = wdata
            /\ read_nodes_ids' = a2.read_nodes_ids
            /\ write_nodes_ids' = a2.write_nodes_ids
            /\ read_id_map' = a2.read_id_map
            /\ precice_vertices' = a2.lib.vertices
            /\ precice_initialized' = TRUE
            /\ IF w.failed
                 THEN /\ Abort("ExcInternalError")
                      /\ precice_data' = w.data
                      /\ read_data' = resized
                      /\ precice_actions' = raised
                      /\ calls' = w.calls
                 ELSE /\ UNCHANGED <<pc, error>>
                      /\ precice_data' = data2
                      /\ read_data' = Overwrite(resized,
                           BlockValues(data2, rdata, a2.read_nodes_ids))
                      /\ precice_actions' = raised \ {WriteInitialData}
                      /\ calls' = Append(calls2,
                           [call |-> "readBlockVectorData", id |-> rdata,
                            size |-> Len(a2.read_nodes_ids),
                            ids |-> a2.read_nodes_ids])

----------------------------------------------------------------------------
(* Adapter::advance *)

\* the caller asks for a write pass with the arguments of the write pass that
\* the operation before ran
RepeatsWritePass(data, dof_handler, write_quadrature, write_required) ==
  /\ write_required
  /\ last.op \in {"initialize", "advance"}
  /\ last.write_required
  /\ last.data = data
  /\ last.dof_handler = dof_handler
  /\ last.write_quadrature = write_quadrature

\* mutant: the library's advance is called again when no read data is available
advance_retrying(dealii_to_precice, dof_handler, write_quadrature, write_required, read_available, raised, e) ==
  /\ pc = "run"
  /\ precice_initialized
  /\ last' = [op |-> "advance", dof_handler |-> dof_handler,
              write_quadrature |-> write_quadrature,
              data |-> dealii_to_precice, write_required |-> write_required,
              read_available |-> read_available,
              repeated |-> RepeatsWritePass(dealii_to_precice, dof_handler,
                                            write_quadrature, write_required)]
  /\ UNCHANGED <<prm, parameters, adpvars, read_nodes_ids, write_nodes_ids,
                 read_id_map, ckptvars, precice_dimensions, precice_vertices,
                 precice_initialized, callvars>>
  /\ LET calls0 == <<[call |-> "isWriteDataRequired", ret |-> write_required]>>
         w == IF write_required
                THEN write_all_quadrature_nodes(write_nodes_ids, write_data_id,
                       precice_data, calls0, dealii_to_precice, dof_handler,
                       write_quadrature)
                ELSE [index |-> 0, data |-> precice_data, calls |-> calls0,
                      failed |-> FALSE]
         \* precice.advance(dt): new data arrives exactly when the library
         \* then reports read data as available
         sent   == ResetWritten(w.data, write_data_id)
         data1  == IF ~read_available THEN sent
                   ELSE IF e = EchoEpoch
                     THEN Echo(w.data, sent, read_data_id, write_data_id)
                     ELSE Deliver(sent, read_data_id, e)
         calls1 == w.calls \o
                   <<[call |-> "advance"],
                     [call |-> "isReadDataAvailable", ret |-> read_available]>> \o
                   (IF read_available THEN <<>> ELSE <<[call |-> "advance"]>>)
     IN IF w.failed
          THEN /\ Abort("ExcInternalError")
               /\ precice_data' = w.data
               /\ calls' = w.calls
               /\ UNCHANGED <<read_data, precice_actions>>
          ELSE /\ UNCHANGED <<pc, error>>
               /\ precice_data' = data1
               /\ precice_actions' = raised
               /\ IF read_available
                    THEN /\ read_data' = Overwrite(read_data,
                              BlockValues(data1, read_data_id, read_nodes_ids))
                         /\ calls' = Append(calls1,
                              [call |-> "readBlockVectorData",
                               id |-> read_data_id,
                               size |-> Len(read_nodes_ids),
                               ids |-> read_nodes_ids])
                    ELSE /\ read_data' = read_data
                         /\ calls' = calls1

advance(dealii_to_precice, dof_handler, write_quadrature, write_required, read_available, raised, e) ==
  /\ pc = "run"
  /\ precice_initialized
  /\ last' = [op |-> "advance", dof_handler |-> dof_handler,
              write_quadrature |-> write_quadrature,
              data |-> dealii_to_precice, write_required |-> write_required,
              read_available |-> read_available,
              repeated |-> RepeatsWritePass(dealii_to_precice, dof_handler,
                                            write_quadrature, write_required)]
  /\ UNCHANGED <<prm, parameters, adpvars, read_nodes_ids, write_nodes_ids,
                 read_id_map, ckptvars, precice_dimensions, precice_vertices,
                 precice_initialized, callvars>>
  /\ LET calls0 == <<[call |-> "isWriteDataRequired", ret |-> write_required]>>
         w == IF write_required
                THEN write_all_quadrature_nodes(write_nodes_ids, write_data_id,
                       precice_data, calls0, dealii_to_precice, dof_handler,
                       write_quadrature)
                ELSE [index |-> 0, data |-> precice_data, calls |-> calls0,
                      failed |-> FALSE]
         \* precice.advance(dt): new data arrives exactly when the library
         \* then reports read data as available
         sent   == ResetWritten(w.data, write_data_id)
         data1  == IF ~read_available THEN sent
                   ELSE IF e = EchoEpoch
                     THEN Echo(w.data, sent, read_data_id, write_data_id)
                     ELSE Deliver(sent, read_data_id, e)
         calls1 == w.calls \o
                   <<[call |-> "advance"],
                     [call |-> "isReadDataAvailable", ret |-> read_available]>>
     IN IF w.failed
          THEN /\ Abort("ExcInternalError")
               /\ precice_data' = w.data
               /\ calls' = w.calls
               /\ UNCHANGED <<read_data, precice_actions>>
          ELSE /\ UNCHANGED <<pc, error>>
               /\ precice_data' = data1
               /\ precice_actions' = raised
               /\ IF read_available
                    THEN /\ read_data' = Overwrite(read_data,
                              BlockValues(data1, read_data_id, read_nodes_ids))
                         /\ calls' = Append(calls1,
                              [call |-> "readBlockVectorData",
                               id |-> read_data_id,
                               size |-> Len(read_nodes_ids),
                               ids |-> read_nodes_ids])
                    ELSE /\ read_data' = read_data
                         /\ calls' = calls1

----------------------------------------------------------------------------
(* Adapter::read_on_quadrature_point, read_on_quadrature_point_with_ID,    *)
(* get_node_id                                                             *)

\* precice.readVectorData(read_data_id, index, data.data())
DirectHandle(index) == index

\* whether the library knows the vertex handle on the data's mesh
ValidHandle(id, handle) == handle >= 0 /\ handle < Len(precice_data[id])

DirectValue(index) == precice_data[read_data_id][DirectHandle(index) + 1]

\* unsigned int has 32 bits; a value is kept as its two 16-bit halves, so that
\* products and sums wrap where the machine's do
UIntBase == 2^16

\* the unsigned int of value n, for 0 <= n < 2^31
UInt(n) == [hi |-> n \div UIntBase, lo |-> n % UIntBase]

\* u * n and u + n in unsigned int arithmetic, for a small n >= 0
UIntTimes(u, n) ==
  LET p == u.lo * n
  IN [hi |-> (u.hi * n + (p \div UIntBase)) % UIntBase, lo |-> p % UIntBase]

UIntPlus(u, n) ==
  LET sum == u.lo + n
  IN [hi |-> (u.hi + (sum \div UIntBase)) % UIntBase, lo |-> sum % UIntBase]

\* u < n, for a container size n
UIntLess(u, n) ==
  \/ u.hi < n \div UIntBase
  \/ u.hi = n \div UIntBase /\ u.lo < n % UIntBase

\* ID_index * dim + d, with ID_index an unsigned int
BufferIndex(ID_index, d) == UIntPlus(UIntTimes(ID_index, dim), d)

\* AssertIndexRange(ID_index * dim + (dim - 1), read_data.size())
InBuffer(ID_index) == UIntLess(BufferIndex(ID_index, dim - 1), Len(read_data))

\* data[d] = read_data[ID_index * dim + d], once the assertion has passed (for
\* dim <= 2 every index of the loop is then below read_data.size())
BufferedValue(ID_index) ==
  [d \in 1..dim |-> read_data[BufferIndex(ID_index, d - 1).lo + 1]]

read_on_quadrature_point(index) ==
  /\ pc = "run"
  /\ precice_initialized
  /\ calls' = <<[call |-> "readVectorData", id |-> read_data_id,
                 handle |-> DirectHandle(index)]>>
  /\ IF ValidHandle(read_data_id, DirectHandle(index))
       THEN /\ last' = [op |-> "read_on_quadrature_point", index |-> index,
                        data |-> DirectValue(index)]
            /\ UNCHANGED <<pc, error>>
       ELSE /\ last' = [op |-> "read_on_quadrature_point", index |-> index]
            /\ Abort("precice")
  /\ UNCHANGED <<prm, parameters, adpvars, meshvars, ckptvars,
                 precice_dimensions, precice_vertices, precice_data,
                 precice_actions, precice_initialized, callvars>>

read_on_quadrature_point_with_ID(ID_index) ==
  /\ pc = "run"
  /\ precice_initialized
  /\ calls' = <<>>
  /\ IF InBuffer(ID_index)
       THEN /\ last' = [op |-> "read_on_quadrature_point_with_ID",
                        index |-> ID_index, data |-> BufferedValue(ID_index)]
            /\ UNCHANGED <<pc, error>>
       ELSE /\ last' = [op |-> "read_on_quadrature_point_with_ID",
                        index |-> ID_index]
            /\ Abort("ExcIndexRange")
  /\ UNCHANGED <<prm, parameters, adpvars, meshvars, ckptvars,
                 precice_dimensions, precice_vertices, precice_data,
                 precice_actions, precice_initialized, callvars>>

\* mutant: the lookup is read_id_map[face_id], which adds a missing key
get_node_id_inserting(face_id) ==
  /\ pc = "run"
  /\ calls' = <<>>
  /\ read_id_map' = IF face_id \in DOMAIN read_id_map
                      THEN read_id_map
                      ELSE MapAssign(read_id_map, face_id, 0)
  /\ last' = [op |-> "get_node_id", face_id |-> face_id,
              ret |-> read_id_map'[face_id]]
  /\ UNCHANGED <<cfgvars, adpvars, read_nodes_ids, write_nodes_ids, read_data,
                 ckptvars, precice_dimensions, precice_vertices, precice_data,
                 precice_actions, precice_initialized, callvars>>

get_node_id(face_id) ==
  /\ pc = "run"
  /\ calls' = <<>>
  /\ IF face_id \in DOMAIN read_id_map
       THEN /\ last' = [op |-> "get_node_id", face_id |-> face_id,
                        ret |-> read_id_map[face_id]]
            /\ UNCHANGED <<pc, error>>
       ELSE /\ last' = [op |-> "get_node_id", face_id |-> face_id]
            /\ Abort("std::out_of_range")
  /\ UNCHANGED <<prm, parameters, adpvars, meshvars, ckptvars,
                 precice_dimensions, precice_vertices, precice_data,
                 precice_actions, precice_initialized, callvars>>

----------------------------------------------------------------------------
(* Checkpoint manager: save_current_state_if_required,                     *)
(* reload_old_state_if_required                                            *)

\* the values the caller's clock takes
Times == {0, 1}

\* the vectors a caller's state variable may hold
StateVectors == {<<1, 2, 3>>, <<9, 9>>}

VectorLists == UNION {[1..n -> StateVectors] : n \in 0..MaxVectors}

\* mutant: the snapshot is never cut down to the length of the new list
ResizeVectorsGrowOnly(vecs, n) ==
  [i \in 1..(IF n > Len(vecs) THEN n ELSE Len(vecs)) |->
     IF i <= Len(vecs) THEN vecs[i] ELSE <<>>]

\* std::vector<VectorType>::resize(n): cut, or fill up with empty vectors
ResizeVectors(vecs, n) == [i \in 1..n |-> IF i <= Len(vecs) THEN vecs[i] ELSE <<>>]

\* for (i < state_variables.size()) old_state_data[i] = *(state_variables[i])
StoreVectors(old, state) ==
  [i \in 1..Len(old) |-> IF i <= Len(state) THEN state[i] ELSE old[i]]

\* mutant: the loop starts at the second vector
RestoreVectorsSkipFirst(state, old) ==
  [i \in 1..Len(state) |-> IF i = 1 THEN state[i] ELSE old[i]]

\* for (i < state_variables.size()) *(state_variables[i]) = old_state_data[i]
RestoreVectors(state, old) == [i \in 1..Len(state) |-> old[i]]

\* Assert(state_variables.size() == old_state_data.size(), ...)
SameSize(state, old) == Len(state) = Len(old)

\* precice.isActionRequired(actionWriteIterationCheckpoint())
SaveRequired == WriteIterationCheckpoint \in precice_actions

\* mutant: the restore asks for the save's action
RestoreRequiredWrongAction == WriteIterationCheckpoint \in precice_actions

\* precice.isActionRequired(actionReadIterationCheckpoint())
RestoreRequired == ReadIterationCheckpoint \in precice_actions

save_current_state_if_required ==
  /\ pc = "run"
  /\ last' = [op |-> "save_current_state_if_required",
              required |-> WriteIterationCheckpoint \in precice_actions]
  /\ IF SaveRequired
       THEN /\ old_state_data' =
                 StoreVectors(ResizeVectors(old_state_data, Len(state_variables)),
                              state_variables)
            /\ old_time_value' = <<time_class>>
            /\ precice_actions' = precice_actions \ {WriteIterationCheckpoint}
            /\ calls' = <<[call |-> "isActionRequired",
                           action |-> WriteIterationCheckpoint, ret |-> TRUE],
                          [call |-> "markActionFulfilled",
                           action |-> WriteIterationCheckpoint]>>
            /\ checkpoint' = [saved |-> TRUE,
                              state_variables |-> state_variables,
                              time |-> time_class,
                              replaced |-> Len(old_state_data)]
       ELSE /\ calls' = <<[call |-> "isActionRequired",
                           action |-> WriteIterationCheckpoint, ret |-> FALSE]>>
            /\ UNCHANGED <<ckptvars, precice_actions, checkpoint>>
  /\ UNCHANGED <<cfgvars, adpvars, meshvars, precice_dimensions,
                 precice_vertices, precice_data, precice_initialized,
                 state_variables, time_class, enumerated, initialize_calls>>

\* mutant: the action is marked fulfilled before the sizes are compared
reload_acknowledging_first ==
  /\ pc = "run"
  /\ last' = [op |-> "reload_old_state_if_required",
              required |-> ReadIterationCheckpoint \in precice_actions,
              state_variables |-> state_variables, time |-> time_class]
  /\ UNCHANGED <<prm, parameters, adpvars, meshvars, ckptvars,
                 precice_dimensions, precice_vertices, precice_data,
                 precice_initialized, checkpoint, enumerated, initialize_calls>>
  /\ IF RestoreRequired
       THEN IF SameSize(state_variables, old_state_data)
              THEN /\ state_variables' =
                        RestoreVectors(state_variables, old_state_data)
                   \* an old_time_value that was never assigned holds any value
                   /\ IF old_time_value = <<>>
                        THEN time_class' \in Times
                        ELSE time_class' = old_time_value[1]
                   /\ precice_actions' =
                        precice_actions \ {ReadIterationCheckpoint}
                   /\ calls' = <<[call |-> "isActionRequired",
                                  action |-> ReadIterationCheckpoint,
                                  ret |-> TRUE],
                                 [call |-> "markActionFulfilled",
                                  action |-> ReadIterationCheckpoint]>>
                   /\ UNCHANGED <<pc, error>>
              ELSE /\ Abort("ExcMessage")
                   /\ calls' = <<[call |-> "isActionRequired",
                                  action |-> ReadIterationCheckpoint,
                                  ret |-> TRUE],
                                 [call |-> "markActionFulfilled",
                                  action |-> ReadIterationCheckpoint]>>
                   /\ precice_actions' =
                        precice_actions \ {ReadIterationCheckpoint}
                   /\ UNCHANGED <<state_variables, time_class>>
       ELSE /\ calls' = <<[call |-> "isActionRequired",
                           action |-> ReadIterationCheckpoint, ret |-> FALSE]>>
            /\ UNCHANGED <<pc, error, state_variables, time_class,
                           precice_actions>>

reload_old_state_if_required ==
  /\ pc = "run"
  /\ last' = [op |-> "reload_old_state_if_required",
              required |-> ReadIterationCheckpoint \in precice_actions,
              state_variables |-> state_variables, time |-> time_class]
  /\ UNCHANGED <<prm, parameters, adpvars, meshvars, ckptvars,
                 precice_dimensions, precice_vertices, precice_data,
                 precice_initialized, checkpoint, enumerated, initialize_calls>>
  /\ IF RestoreRequired
       THEN IF SameSize(state_variables, old_state_data)
              THEN /\ state_variables' =
                        RestoreVectors(state_variables, old_state_data)
                   \* an old_time_value that was never assigned holds any value
                   /\ IF old_time_value = <<>>
                        THEN time_class' \in Times
                        ELSE time_class' = old_time_value[1]
                   /\ precice_actions' =
                        precice_actions \ {ReadIterationCheckpoint}
                   /\ calls' = <<[call |-> "isActionRequired",
                                  action |-> ReadIterationCheckpoint,
                                  ret |-> TRUE],
                                 [call |-> "markActionFulfilled",
                                  action |-> ReadIterationCheckpoint]>>
                   /\ UNCHANGED <<pc, error>>
              ELSE /\ Abort("ExcMessage")
                   /\ calls' = <<[call |-> "isActionRequired",
                                  action |-> ReadIterationCheckpoint,
                                  ret |-> TRUE]>>
                   /\ UNCHANGED <<state_variables, time_class, precice_actions>>
       ELSE /\ calls' = <<[call |-> "isActionRequired",
                           action |-> ReadIterationCheckpoint, ret |-> FALSE]>>
            /\ UNCHANGED <<pc, error, state_variables, time_class,
                           precice_actions>>

\* between two calls the solver changes its state vectors and its clock, and
\* may hand the adapter another list of state variables
solver_step(vectors, t) ==
  /\ pc = "run"
  /\ state_variables' = vectors
  /\ time_class' = t
  /\ last' = [op |-> "solver_step"]
  /\ UNCHANGED <<cfgvars, adpvars, meshvars, ckptvars, libvars, checkpoint,
                 enumerated, initialize_calls>>

----------------------------------------------------------------------------
(* Initial states and specifications *)

SolverDims  == {1, 2}      \* instantiations of the template parameter dim
LibraryDims == {2, 3}      \* dimensions a precice-config file may declare

Epochs == 0..MaxEpoch

Configuration(mesh, read, write) ==
  [k \in {"Mesh name", "Read mesh name", "Write mesh name"} |->
     IF k = "Mesh name" THEN mesh
     ELSE IF k = "Read mesh name" THEN read ELSE write]

\* every parameter file over MeshNames
AllConfigurations ==
  {Configuration(m, r, w) : m \in MeshNames, r \in MeshNames, w \in MeshNames}

\* one shared mesh, or one mesh per direction
CoupledConfigurations ==
  {Configuration("Interface", Default, Default),
   Configuration(Default, "Fluid-Mesh", "Solid-Mesh")}

\* the mesh and data ids are assigned in initialize() and read by nothing
\* before; until then they hold no id of the library
Unassigned == -1

\* the state before parse_parameters, for a parameter file out of configs
InitOver(configs) ==
  /\ pc = "parse"
  /\ error = "none"
  /\ prm \in configs
  /\ parameters = Unparsed
  /\ dim \in SolverDims
  /\ read_mesh_name = ""
  /\ write_mesh_name = ""
  /\ read_mesh_id = Unassigned
  /\ write_mesh_id = Unassigned
  /\ read_data_id = <<"", Unassigned>>
  /\ write_data_id = <<"", Unassigned>>
  /\ read_nodes_ids = <<>>
  /\ write_nodes_ids = <<>>
  /\ read_id_map = EmptyMap
  /\ read_data = <<>>
  /\ old_state_data = <<>>
  /\ old_time_value = <<>>
  /\ precice_dimensions \in LibraryDims
  /\ precice_vertices = [m \in MeshIDs |-> <<>>]
  /\ precice_data = [id \in DataIDs |-> <<>>]
  /\ precice_actions = {}
  /\ precice_initialized = FALSE
  /\ calls = <<>>
  /\ state_variables = <<>>
  /\ time_class = 0
  /\ checkpoint = [saved |-> FALSE, state_variables |-> <<>>, time |-> 0,
                   replaced |-> 0]
  /\ enumerated = [dof_handler |-> <<>>, write_quadrature |-> 0,
                   read_quadrature |-> 0]
  /\ initialize_calls = 0
  /\ last = [op |-> "none"]

FaceIds == {f.face_index : f \in UNION {{m[i] : i \in 1..Len(m)} : m \in Meshes}}

\* the identifiers a caller passes: every position, one past the last, and 2^31
IndexInputs ==
  {UInt(i) : i \in 0..Len(read_nodes_ids)} \cup {[hi |-> UIntBase \div 2, lo |-> 0]}

\* the read operations, at every position and one past the last
Reads ==
  \/ \E i \in 0..Len(read_nodes_ids) : read_on_quadrature_point(i)
  \/ \E i \in IndexInputs : read_on_quadrature_point_with_ID(i)
  \/ \E f \in FaceIds : get_node_id(f)

(* Enumeration and data transfer over every mesh and quadrature rule,      *)
(* coupled by an explicit scheme: no checkpoint action is raised.  The     *)
(* first data set (0) arrives in initialize(), the later ones in advance().*)
Init == InitOver(CoupledConfigurations)

Next ==
  \/ parse_parameters
  \/ Adapter
  \/ \E m \in Meshes, wq \in Quadratures, rq \in Quadratures,
        r \in SUBSET {WriteInitialData} :
       initialize(m, wq, rq, 1, r, 0)
  \/ \E f \in Fields, m \in Meshes, wq \in Quadratures, wr \in BOOLEAN,
        ra \in BOOLEAN, e \in 1..MaxEpoch :
       advance(f, m, wq, wr, ra, {}, e)
  \/ Reads

Spec == Init /\ [][Next]_vars

(* The checkpoint manager under an implicit scheme: the library raises the *)
(* checkpoint actions in initialize() and advance(); one mesh, no data     *)
(* transfer.                                                               *)
InitCheckpoint == InitOver({Configuration("Interface", Default, Default)})

NextCheckpoint ==
  \/ parse_parameters
  \/ Adapter
  \/ \E r \in SUBSET {WriteIterationCheckpoint} :
       initialize(CoarseMesh, 1, 1, 1, r, 0)
  \/ \E r \in SUBSET {WriteIterationCheckpoint, ReadIterationCheckpoint} :
       advance(1, CoarseMesh, 1, FALSE, FALSE, r, 0)
  \/ save_current_state_if_required
  \/ reload_old_state_if_required
  \/ \E v \in VectorLists, t \in Times : solver_step(v, t)

SpecCheckpoint == InitCheckpoint /\ [][NextCheckpoint]_vars

(* The parameter block over every parameter file. *)
InitParameters == InitOver(AllConfigurations)

NextParameters == parse_parameters \/ Adapter

SpecParameters == InitParameters /\ [][NextParameters]_vars

(* Enumeration and data transfer against a mock library whose peer returns *)
(* in advance() the values written in that step.                           *)
InitEcho == InitOver(CoupledConfigurations)

NextEcho ==
  \/ parse_parameters
  \/ Adapter
  \/ \E m \in Meshes, wq \in Quadratures, rq \in Quadratures :
       initialize(m, wq, rq, 1, {}, 0)
  \/ \E m \in Meshes, wq \in Quadratures, wr \in BOOLEAN, ra \in BOOLEAN :
       advance(2, m, wq, wr, ra, {}, EchoEpoch)
  \/ Reads

SpecEcho == InitEcho /\ [][NextEcho]_vars

(* The whole interface of the adapter under an implicit scheme: repeated   *)
(* enumeration over both meshes, data transfer, the checkpoint operations  *)
(* and the read accesses, with one shared coupling mesh, one quadrature    *)
(* point per face and one state vector.                                    *)
InitLifecycle == InitOver({Configuration("Interface", Default, Default)})

NextLifecycle ==
  \/ parse_parameters
  \/ Adapter
  \/ \E m \in Meshes, r \in SUBSET {WriteIterationCheckpoint} :
       initialize(m, 1, 1, 1, r, 0)
  \/ \E wr \in BOOLEAN, ra \in BOOLEAN,
        r \in SUBSET {WriteIterationCheckpoint, ReadIterationCheckpoint} :
       advance(1, CoarseMesh, 1, wr, ra, r, MaxEpoch)
  \/ save_current_state_if_required
  \/ reload_old_state_if_required
  \/ solver_step(<< <<1, 2, 3>> >>, 1)
  \/ Reads

SpecLifecycle == InitLifecycle /\ [][NextLifecycle]_vars

----------------------------------------------------------------------------
(* Properties *)

\* what the claims call a face carrying the coupling boundary id
CarriesCouplingId(face) ==
  face.at_boundary /\ face.boundary_id = dealii_boundary_interface_id

MatchingFaces(mesh) == SelectSeq(mesh, CarriesCouplingId)

IsWriteCall(c) == c.call = "writeVectorData"
IsRegisterCall(c) == c.call = "setMeshVertex"

\* the write_vector calls, and the register_vertex calls, of the last operation
WriteCalls == SelectSeq(calls, IsWriteCall)
RegisterCalls == SelectSeq(calls, IsRegisterCall)

\* the last operation ran a write pass (to its end or to a fatal error)
WritePassRan == last.op \in {"initialize", "advance"}
                /\ last.write_required
                /\ error \in {"none", "ExcInternalError"}

\* the handles at positions f*Q+q of ids are those of the vertices that the
\* library holds, on that mesh, at point q of the f-th matching face
EnumeratedInOrder(ids, mesh_id, faces, Q) ==
  /\ Len(ids) = Len(faces) * Q
  /\ \A f \in 0..(Len(faces) - 1) : \A q \in 0..(Q - 1) :
       LET handle == ids[f * Q + q + 1] IN
         /\ handle \in 0..(Len(precice_vertices[mesh_id]) - 1)
         /\ precice_vertices[mesh_id][handle + 1] = QuadraturePoint(faces[f + 1], Q, q)
         /\ \E c \in 1..Len(RegisterCalls) :
              /\ RegisterCalls[c].ret = handle
              /\ RegisterCalls[c].mesh = mesh_id
              /\ RegisterCalls[c].vertex = QuadraturePoint(faces[f + 1], Q, q)

\* C1: after the first initialize() of an adapter, over a mesh with N faces on
\* the coupling boundary, write_nodes_ids holds N*Qw handles and read_nodes_ids
\* N*Qr, position f*Q+q holding the handle the library returned for point q of
\* the f-th matching face; no other face contributes an entry.
C1_FirstEnumeration ==
  (last.op = "initialize" /\ pc = "run" /\ initialize_calls = 1) =>
    /\ EnumeratedInOrder(write_nodes_ids, write_mesh_id,
                         MatchingFaces(last.dof_handler), last.write_quadrature)
    /\ EnumeratedInOrder(read_nodes_ids, read_mesh_id,
                         MatchingFaces(last.dof_handler), last.read_quadrature)
    /\ Len(RegisterCalls) = Len(write_nodes_ids) + Len(read_nodes_ids)

\* two matching faces among faces of other kinds, Qw = 2 and Qr = 1
C1_Witness ==
  /\ last.op = "initialize" /\ pc = "run" /\ initialize_calls = 1
  /\ last.dof_handler = CoarseMesh
  /\ last.write_quadrature = 2 /\ last.read_quadrature = 1
  /\ Len(write_nodes_ids) = 4 /\ Len(read_nodes_ids) = 2

\* C2: a write pass over the mesh and write quadrature of the enumeration
\* issues exactly one write_vector call per handle of write_nodes_ids, the k-th
\* call carrying write_nodes_ids[k] and the field at the k-th point.
C2_OneWritePerHandle ==
  (WritePassRan /\ last.dof_handler = enumerated.dof_handler
                /\ last.write_quadrature = enumerated.write_quadrature) =>
    LET faces == MatchingFaces(last.dof_handler)
        Q     == last.write_quadrature
    IN /\ pc = "run"
       /\ Len(WriteCalls) = Len(write_nodes_ids)
       /\ \A k \in 1..Len(WriteCalls) :
            /\ WriteCalls[k].handle = write_nodes_ids[k]
            /\ WriteCalls[k].value =
                 FunctionValues(last.data, faces[((k - 1) \div Q) + 1], Q, (k - 1) % Q)

\* C6: after any initialize(), also a repeated one, each vertex set holds only
\* the handles of this run and the face map only faces of the current mesh.
C6_RebuiltFromScratch ==
  (last.op = "initialize" /\ pc = "run") =>
    LET faces == MatchingFaces(last.dof_handler) IN
      /\ Len(write_nodes_ids) = Len(faces) * last.write_quadrature
      /\ Len(read_nodes_ids) = Len(faces) * last.read_quadrature
      /\ DOMAIN read_id_map = {faces[f].face_index : f \in 1..Len(faces)}
      /\ \A k \in 1..Len(write_nodes_ids) :
           \E c \in 1..Len(RegisterCalls) : RegisterCalls[c].ret = write_nodes_ids[k]
      /\ \A k \in 1..Len(read_nodes_ids) :
           \E c \in 1..Len(RegisterCalls) : RegisterCalls[c].ret = read_nodes_ids[k]

\* C5: after initialize() and any advance() calls the two access modes agree
\* at every position i of the read set, and the buffered value is what the
\* library holds for the handle registered at position i.
C5_AccessModesAgree ==
  (pc = "run" /\ precice_initialized) =>
    \A i \in 0..(Len(read_nodes_ids) - 1) :
      /\ ValidHandle(read_data_id, DirectHandle(i))
      /\ InBuffer(UInt(i))
      /\ DirectValue(i) = BufferedValue(UInt(i))
      /\ BufferedValue(UInt(i)) = precice_data[read_data_id][read_nodes_ids[i + 1] + 1]

\* C10: a write pass never uses a handle at or past the end of
\* write_nodes_ids, and every mismatch between the number of points of the
\* traversal and the length of write_nodes_ids ends it with a fatal error
\* (stated for an adapter that was enumerated once).
C10_EveryMismatchFatal ==
  (WritePassRan /\ initialize_calls = 1) =>
    LET points == Len(MatchingFaces(last.dof_handler)) * last.write_quadrature IN
      /\ Len(WriteCalls) <= Len(write_nodes_ids)
      /\ \A k \in 1..Len(WriteCalls) : WriteCalls[k].handle = write_nodes_ids[k]
      /\ (points # Len(write_nodes_ids)) =>
           (pc = "abort" /\ error = "ExcInternalError")

\* C10 as amended: the pass uses the handles in order and none past the end;
\* when the traversal has more points than write_nodes_ids has handles it stops
\* with a fatal error at the first point without a handle, after one call per
\* handle; when it has as many or fewer points it completes without an error,
\* with one call per point.
C10_ShortfallFatal ==
  WritePassRan =>
    LET points == Len(MatchingFaces(last.dof_handler)) * last.write_quadrature IN
      /\ Len(WriteCalls) <= Len(write_nodes_ids)
      /\ \A k \in 1..Len(WriteCalls) : WriteCalls[k].handle = write_nodes_ids[k]
      /\ IF points > Len(write_nodes_ids)
           THEN /\ pc = "abort" /\ error = "ExcInternalError"
                /\ Len(WriteCalls) = Len(write_nodes_ids)
                /\ calls[Len(calls)].call # "advance"
           ELSE /\ pc = "run" /\ error = "none"
                /\ Len(WriteCalls) = points

\* the traversal had more points than handles, and the pass stopped after
\* using every handle once
C10_Witness ==
  /\ WritePassRan /\ last.op = "advance"
  /\ pc = "abort" /\ error = "ExcInternalError"
  /\ Len(write_nodes_ids) = 2
  /\ Len(WriteCalls) = 2
  /\ Len(MatchingFaces(last.dof_handler)) * last.write_quadrature = 4

\* C2 holds as long as the adapter was enumerated once
C2_FirstEnumerationOnly == (initialize_calls = 1) => C2_OneWritePerHandle

\* C5 holds when the read mesh is not the write mesh
C5_SeparateMeshesOnly == (read_mesh_id # write_mesh_id) => C5_AccessModesAgree

\* C3: a signalled restore on a list as long as the list of the latest
\* signalled save succeeds and leaves every caller vector and the simulation
\* time as they were at that save, whatever the caller did in between.
C3_CheckpointRoundTrip ==
  (/\ last.op = "reload_old_state_if_required" /\ last.required
   /\ checkpoint.saved
   /\ Len(last.state_variables) = Len(checkpoint.state_variables)) =>
    /\ pc = "run"
    /\ state_variables = checkpoint.state_variables
    /\ time_class = checkpoint.time

\* two vectors and the time were saved, all of them changed by the caller,
\* and restored
C3_Witness ==
  /\ last.op = "reload_old_state_if_required" /\ last.required /\ pc = "run"
  /\ checkpoint.saved
  /\ checkpoint.state_variables = << <<1, 2, 3>>, <<9, 9>> >>
  /\ last.state_variables = << <<9, 9>>, <<1, 2, 3>> >>
  /\ last.time # checkpoint.time
  /\ state_variables = checkpoint.state_variables

\* C4: a signalled restore without an earlier save, or on a list of another
\* length than the saved one, ends with a fatal error, leaves the caller's
\* vectors and time alone and does not acknowledge the action.
C4_RestoreWithoutMatchingSaveFatal ==
  (/\ last.op = "reload_old_state_if_required" /\ last.required
   /\ \/ ~checkpoint.saved
      \/ Len(last.state_variables) # Len(checkpoint.state_variables)) =>
    /\ pc = "abort" /\ error = "ExcMessage"
    /\ state_variables = last.state_variables
    /\ time_class = last.time
    /\ ReadIterationCheckpoint \in precice_actions

\* what is left of C4: the error is raised whenever the two lengths differ
C4_LengthMismatchFatal ==
  (/\ last.op = "reload_old_state_if_required" /\ last.required
   /\ Len(last.state_variables) # Len(old_state_data)) =>
    /\ pc = "abort" /\ error = "ExcMessage"
    /\ state_variables = last.state_variables
    /\ time_class = last.time
    /\ ReadIterationCheckpoint \in precice_actions

\* C7: a save that is not signalled and a restore that is not signalled change
\* neither the snapshot nor the caller's vectors and time, and acknowledge
\* nothing.
C7_NotSignalledNoOp ==
  [][(\/ /\ last'.op = "save_current_state_if_required"
         /\ WriteIterationCheckpoint \notin precice_actions
      \/ /\ last'.op = "reload_old_state_if_required"
         /\ ReadIterationCheckpoint \notin precice_actions) =>
       /\ UNCHANGED <<old_state_data, old_time_value, state_variables,
                      time_class, precice_actions, pc, error>>
       /\ \A c \in 1..Len(calls') : calls'[c].call # "markActionFulfilled"]_vars

\* a restore that is not signalled, on a list of another length than the
\* snapshot, while a save is signalled
C7_Witness ==
  /\ last.op = "reload_old_state_if_required" /\ ~last.required /\ pc = "run"
  /\ checkpoint.saved
  /\ Len(state_variables) # Len(old_state_data)
  /\ precice_actions = {WriteIterationCheckpoint}

\* C8: the snapshot is the list and the time of the latest signalled save, with
\* exactly as many vectors, and every successful restore yields that save.
C8_OneLiveSnapshot ==
  checkpoint.saved =>
    /\ Len(old_state_data) = Len(checkpoint.state_variables)
    /\ old_state_data = checkpoint.state_variables
    /\ old_time_value = <<checkpoint.time>>
    /\ (last.op = "reload_old_state_if_required" /\ last.required /\ pc = "run") =>
         (state_variables = checkpoint.state_variables /\ time_class = checkpoint.time)

\* a restore after a save of one vector that replaced a snapshot of two
C8_Witness ==
  /\ last.op = "reload_old_state_if_required" /\ last.required /\ pc = "run"
  /\ checkpoint.saved /\ checkpoint.replaced = 2
  /\ Len(old_state_data) = 1
  /\ last.state_variables # state_variables

\* C9: parse_parameters accepts a parameter file exactly when it sets either
\* 'Mesh name' alone or both 'Read mesh name' and 'Write mesh name' alone.
C9_AcceptsExactlyValid ==
  (pc # "parse") =>
    LET shared == prm["Mesh name"] # Default
        read   == prm["Read mesh name"] # Default
        write  == prm["Write mesh name"] # Default
    IN (error = "none") <=> \/ (shared /\ ~read /\ ~write)
                            \/ (~shared /\ read /\ write)

\* the library calls that register a vertex, start the coupling or move data
TransferCalls == {"setMeshVertex", "initialize", "initializeData",
                  "writeVectorData", "readVectorData", "readBlockVectorData"}

\* C11: initialize() ends with a fatal error when the library's dimension
\* differs from dim or dim < 2, before any vertex is registered, before the
\* library's initialize() and before any data is written or read; both vertex
\* sets, the face map and the read buffer stay as they were.
C11_DimensionErrorFirst ==
  [][(last'.op = "initialize" /\ (dim # precice_dimensions \/ dim < 2)) =>
       /\ pc' = "abort"
       /\ error' \in {"ExcMessage", "ExcNotImplemented"}
       /\ UNCHANGED <<read_nodes_ids, write_nodes_ids, read_id_map, read_data,
                      precice_vertices, precice_data, precice_initialized>>
       /\ \A c \in 1..Len(calls') : calls'[c].call \notin TransferCalls]_vars

\* a two-dimensional solver coupled through a three-dimensional configuration
C11_Witness ==
  /\ last.op = "initialize" /\ pc = "abort" /\ error = "ExcMessage"
  /\ dim = 2 /\ precice_dimensions = 3
  /\ read_nodes_ids = <<>> /\ write_nodes_ids = <<>> /\ read_data = <<>>
  /\ ~precice_initialized

\* the part of the program state that set_mesh_vertices works on
EnumerationState ==
  [read_mesh_id |-> read_mesh_id, write_mesh_id |-> write_mesh_id,
   read_nodes_ids |-> read_nodes_ids, write_nodes_ids |-> write_nodes_ids,
   read_id_map |-> read_id_map,
   lib |-> [vertices |-> precice_vertices, data |-> precice_data],
   calls |-> <<>>]

\* an enumeration of the write side, from the current state, leaves the map alone
WriteSideKeepsMap ==
  precice_initialized =>
    \A m \in Meshes, q \in Quadratures :
      set_mesh_vertices(EnumerationState, m, q, FALSE).read_id_map = read_id_map

\* C12: after initialize() the face map has exactly one entry for each face on
\* the coupling boundary and none for any other face, the f-th matching face
\* (counted from 0) mapping to offset f*Qr; enumerating the write side never
\* adds or changes a map entry.
C12_OneEntryPerFace ==
  /\ WriteSideKeepsMap
  /\ (last.op = "initialize" /\ pc = "run") =>
       LET faces == MatchingFaces(last.dof_handler)
           Qr    == last.read_quadrature
       IN /\ DOMAIN read_id_map = {faces[f].face_index : f \in 1..Len(faces)}
          /\ \A f \in 1..Len(faces) :
               read_id_map[faces[f].face_index] = (f - 1) * Qr

\* C12 holds as long as the adapter was enumerated once
C12_FirstEnumerationOnly == (initialize_calls = 1) => C12_OneEntryPerFace

\* the last operation was read_on_quadrature_point_with_ID(i), and it behaved
\* as the contract of the buffered access says, i being the identifier's value
BufferedReadAsSpecified ==
  LET i == last.index IN
    IF UIntLess(i, Len(read_nodes_ids))
      THEN /\ pc = "run"
           /\ last.data = [d \in 1..dim |-> read_data[i.lo * dim + (d - 1) + 1]]
      ELSE /\ pc = "abort"
           /\ error = "ExcIndexRange"

\* C13: read_on_quadrature_point_with_ID(i) returns read_data[i*dim + d],
\* d = 0..dim-1, when i is below the number of read vertices, and ends with a
\* fatal index-range error for every i at or beyond it.
C13_BufferedReadChecked ==
  (last.op = "read_on_quadrature_point_with_ID") => BufferedReadAsSpecified

\* C13 holds for the identifiers whose products with dim do not wrap
C13_WithoutWrapOnly ==
  (last.op = "read_on_quadrature_point_with_ID" /\ last.index.hi = 0) =>
    BufferedReadAsSpecified

IsBulkRead(c) == c.call = "readBlockVectorData"

\* the bulk reads of the last operation
BulkReads == SelectSeq(calls, IsBulkRead)

\* C14: in every state after a successful initialize(), whatever advance, save,
\* reload and further initialize calls followed, read_data has
\* (number of handles in read_nodes_ids) * dim elements, and every bulk read
\* hands the library the whole of read_nodes_ids with its length as the count.
C14_BufferMatchesReadSet ==
  precice_initialized =>
    /\ Len(read_data) = Len(read_nodes_ids) * dim
    /\ \A c \in 1..Len(BulkReads) :
         /\ BulkReads[c].ids = read_nodes_ids
         /\ BulkReads[c].size = Len(read_nodes_ids)

\* a bulk read in advance(), after a second enumeration over the adapted mesh
\* and a restore
C14_Witness ==
  /\ precice_initialized /\ pc = "run"
  /\ initialize_calls = 2 /\ enumerated.dof_handler = AdaptedMesh
  /\ checkpoint.saved
  /\ last.op = "advance" /\ last.read_available
  /\ Len(BulkReads) = 1
  /\ Len(read_nodes_ids) = 3 /\ Len(read_data) = 6

\* the last operation was an advance() that ran a write pass to its end and
\* then received the echo of the mock peer
EchoedWritePass ==
  /\ last.op = "advance" /\ pc = "run"
  /\ last.write_required /\ last.read_available

\* the field's value at the k-th point of the traversal of the last write pass
WrittenValue(k) ==
  LET faces == MatchingFaces(last.dof_handler)
      Q     == last.write_quadrature
  IN FunctionValues(last.data, faces[((k - 1) \div Q) + 1], Q, (k - 1) % Q)

\* C15: against a mock library that echoes written data, after a write pass
\* that wrote v_k to the handle at position k of write_nodes_ids, both the
\* single-vertex read of that handle and the buffer entry that the bulk read
\* filled for that handle hold the dim components of v_k, in order.
C15_WriteReadRoundTrip ==
  EchoedWritePass =>
    \A k \in 1..Len(WriteCalls) :
      LET handle == write_nodes_ids[k] IN
        ValidHandle(read_data_id, handle) =>
          /\ DirectValue(handle) = WrittenValue(k)
          /\ \A j \in 1..Len(read_nodes_ids) :
               (read_nodes_ids[j] = handle) =>
                 BufferedValue(UInt(j - 1)) = WrittenValue(k)

\* one face with two quadrature points, field dimension 2: two values written,
\* echoed, and delivered by the bulk read to positions 0 and 1 of the buffer
C15_Witness ==
  /\ EchoedWritePass
  /\ dim = 2 /\ initialize_calls = 1
  /\ last.dof_handler = AdaptedMesh /\ last.write_quadrature = 2
  /\ Len(WriteCalls) = 2
  /\ read_nodes_ids = <<0, 1>> /\ write_nodes_ids = <<0, 1>>
  /\ DirectValue(0) = WrittenValue(1) /\ DirectValue(1) = WrittenValue(2)
  /\ read_data = WrittenValue(1) \o WrittenValue(2)
  /\ WrittenValue(1) # WrittenValue(2)

\* the (vertex handle, components) pairs that a call log delivers to the library
Payload(log) ==
  LET writes == SelectSeq(log, IsWriteCall)
  IN [k \in 1..Len(writes) |-> <<writes[k].handle, writes[k].value>>]

\* C16: two consecutive write passes with the same field over the same mesh
\* and write quadrature deliver the same sequence of (vertex handle,
\* components) pairs to the library, and the write pass of advance() leaves
\* write_nodes_ids unchanged.
C16_WriteIdempotent ==
  [][/\ (last'.op = "advance" /\ last'.write_required) =>
          write_nodes_ids' = write_nodes_ids
     /\ (last'.op = "advance" /\ last'.repeated /\ pc' = "run") =>
          Payload(calls') = Payload(calls)]_vars

\* the second of two passes over two faces with two points each
C16_Witness ==
  /\ last.op = "advance" /\ last.repeated /\ pc = "run"
  /\ last.dof_handler = CoarseMesh /\ last.write_quadrature = 2
  /\ Len(Payload(calls)) = 4
  /\ Payload(calls)[1][1] = write_nodes_ids[1]
  /\ Payload(calls)[4][2] = FunctionValues(last.data, CoarseMesh[4], 2, 1)

\* in the call log, every bulk read directly follows an isReadDataAvailable()
\* that returned true
BulkReadsWhenAvailable(log) ==
  \A c \in 1..Len(log) :
    (log[c].call = "readBlockVectorData") =>
      /\ c > 1
      /\ log[c - 1].call = "isReadDataAvailable"
      /\ log[c - 1].ret = TRUE

\* the library answered in this operation that no read data is available
ReportedUnavailable(log) ==
  \E c \in 1..Len(log) :
    log[c].call = "isReadDataAvailable" /\ log[c].ret = FALSE

\* the operation made a bulk read over the whole of ids
BulkReadOver(log, ids) ==
  \E c \in 1..Len(log) :
    /\ log[c].call = "readBlockVectorData"
    /\ log[c].ids = ids /\ log[c].size = Len(ids)

\* an operation of the adapter changes read_data only through a bulk read over
\* all read vertices, reads in bulk only when data is reported available, and
\* keeps the buffer when none is; a step of the caller leaves the buffer alone
BufferStepAsSpecified ==
  IF last'.op = "solver_step"
    THEN read_data' = read_data
    ELSE /\ (read_data' # read_data) => BulkReadOver(calls', read_nodes_ids')
         /\ BulkReadsWhenAvailable(calls')
         /\ ReportedUnavailable(calls') => read_data' = read_data

\* C17: read_data is modified only by a bulk read covering all read vertices;
\* every bulk read, in initialize() as well as in advance(), happens only when
\* the library reports read data as available; when it reports none the buffer
\* keeps its contents.
C17_BufferOnlyRefreshedWhenAvailable == [][BufferStepAsSpecified]_vars

\* what holds of C17: the steps of advance() and of every operation other than
\* initialize()
C17_OutsideInitialize ==
  [][(last'.op # "initialize") => BufferStepAsSpecified]_vars

CheckpointOperations ==
  {"save_current_state_if_required", "reload_old_state_if_required"}

\* the operations between two enumerations
TransferOperations ==
  {"advance", "read_on_quadrature_point", "read_on_quadrature_point_with_ID",
   "get_node_id"} \cup CheckpointOperations

\* C18: advance(), the two checkpoint operations, the two read accesses and
\* get_node_id() leave read_nodes_ids, write_nodes_ids and read_id_map
\* unchanged and register no vertex; the checkpoint operations also leave
\* read_data unchanged, and advance() leaves the snapshot unchanged.
C18_VerticesImmutable ==
  [][/\ (last'.op \in TransferOperations) =>
          /\ UNCHANGED <<read_nodes_ids, write_nodes_ids, read_id_map,
                         precice_vertices>>
          /\ \A c \in 1..Len(calls') : calls'[c].call # "setMeshVertex"
     /\ (last'.op \in CheckpointOperations) => UNCHANGED read_data
     /\ (last'.op = "advance") => UNCHANGED <<old_state_data, old_time_value>>
    ]_vars

\* an advance() that wrote and read, with a snapshot held and after a second
\* enumeration
C18_Witness ==
  /\ last.op = "advance" /\ pc = "run"
  /\ last.write_required /\ last.read_available
  /\ checkpoint.saved /\ old_state_data = << <<1, 2, 3>> >>
  /\ initialize_calls = 2
  /\ Len(write_nodes_ids) = 4 /\ Len(read_nodes_ids) = 4
  /\ DOMAIN read_id_map = {0, 3}

\* the positions of the call log at which the library call named name stands
PositionsOf(name) == {c \in 1..Len(calls) : calls[c].call = name}

\* C19: an advance() call that returns has called the library's advance
\* exactly once, for every combination of the library's answers; its
\* write_vector calls, made iff isWriteDataRequired(dt) held, all precede the
\* library's advance, and the bulk read, made once iff isReadDataAvailable()
\* held after the advance and never otherwise, follows it.  (A call that the
\* fatal assertion of the write pass ends does not return and reaches neither.)
C19_OneLibraryAdvancePerStep ==
  (last.op = "advance") =>
    IF pc = "run"
      THEN /\ Cardinality(PositionsOf("advance")) = 1
           /\ calls[1] = [call |-> "isWriteDataRequired",
                          ret |-> last.write_required]
           /\ Len(WriteCalls) =
                IF last.write_required
                  THEN Len(MatchingFaces(last.dof_handler)) * last.write_quadrature
                  ELSE 0
           /\ \A a \in PositionsOf("advance") :
                /\ \A c \in PositionsOf("writeVectorData") : c < a
                /\ calls[a + 1] = [call |-> "isReadDataAvailable",
                                   ret |-> last.read_available]
                /\ \A c \in PositionsOf("readBlockVectorData") : c = a + 2
           /\ Cardinality(PositionsOf("readBlockVectorData")) =
                IF last.read_available THEN 1 ELSE 0
      ELSE /\ PositionsOf("advance") = {}
           /\ PositionsOf("readBlockVectorData") = {}

\* four values written, then the library's advance, then the bulk read
C19_Witness ==
  /\ last.op = "advance" /\ pc = "run"
  /\ last.write_required /\ last.read_available
  /\ Len(calls) = 8
  /\ PositionsOf("writeVectorData") = 2..5
  /\ PositionsOf("advance") = {6}
  /\ PositionsOf("readBlockVectorData") = {8}

\* the last n elements of a sequence
Tail_n(seq, n) == SubSeq(seq, Len(seq) - n + 1, Len(seq))

\* C20: in an initialize() that passes the dimension checks, every write vertex
\* and then every read vertex is registered before the library's initialize(),
\* and no data is written or read before it; if the write-initial-data action
\* is required the write pass runs to its end, then the action is marked
\* fulfilled, then initializeData() is called, and then the first bulk read is
\* made; if it is not required there is no write, no mark and no
\* initializeData(), only the bulk read.
C20_InitializeOrder ==
  (last.op = "initialize" /\ pc = "run") =>
    LET N  == Len(MatchingFaces(last.dof_handler))
        nW == N * last.write_quadrature
        nR == N * last.read_quadrature
        i0 == 2 + nW + nR
    IN /\ PositionsOf("setMeshVertex") = 2..(i0 - 1)
       /\ \A k \in 1..nW :
            /\ calls[1 + k].mesh = write_mesh_id
            /\ calls[1 + k].ret = Tail_n(write_nodes_ids, nW)[k]
       /\ \A k \in 1..nR :
            /\ calls[1 + nW + k].mesh = read_mesh_id
            /\ calls[1 + nW + k].ret = Tail_n(read_nodes_ids, nR)[k]
       /\ PositionsOf("initialize") = {i0}
       /\ PositionsOf("readVectorData") = {}
       /\ IF last.write_required
            THEN /\ PositionsOf("writeVectorData") = (i0 + 1)..(i0 + nW)
                 /\ calls[i0 + nW + 1] = [call |-> "markActionFulfilled",
                                          action |-> WriteInitialData]
                 /\ PositionsOf("markActionFulfilled") = {i0 + nW + 1}
                 /\ PositionsOf("initializeData") = {i0 + nW + 2}
                 /\ PositionsOf("readBlockVectorData") = {i0 + nW + 3}
                 /\ Len(calls) = i0 + nW + 3
            ELSE /\ PositionsOf("writeVectorData") = {}
                 /\ PositionsOf("markActionFulfilled") = {}
                 /\ PositionsOf("initializeData") = {}
                 /\ PositionsOf("readBlockVectorData") = {i0 + 1}
                 /\ Len(calls) = i0 + 1

\* four write vertices and two read vertices registered, initial data written
C20_Witness ==
  /\ last.op = "initialize" /\ pc = "run" /\ last.write_required
  /\ last.dof_handler = CoarseMesh
  /\ last.write_quadrature = 2 /\ last.read_quadrature = 1
  /\ PositionsOf("setMeshVertex") = 2..7
  /\ PositionsOf("initialize") = {8}
  /\ PositionsOf("writeVectorData") = 9..12
  /\ PositionsOf("initializeData") = {14}
  /\ Len(calls) = 15

\* the marks of a call log: the actions it acknowledges, in order
Marks(log) ==
  LET IsMark(c) == c.call = "markActionFulfilled"
      marks     == SelectSeq(log, IsMark)
  IN [k \in 1..Len(marks) |-> marks[k].action]

\* a step of save_current_state_if_required: one acknowledgement of
\* write-iteration-checkpoint, in a call where it is signalled and with the
\* vectors and the time copied; none otherwise; the caller's vectors and time
\* and the restore's action stay as they were
SaveStepAsSpecified ==
  /\ IF WriteIterationCheckpoint \in precice_actions
       THEN /\ Marks(calls') = <<WriteIterationCheckpoint>>
            /\ old_state_data' = state_variables
            /\ old_time_value' = <<time_class>>
            /\ WriteIterationCheckpoint \notin precice_actions'
       ELSE Marks(calls') = <<>>
  /\ UNCHANGED <<state_variables, time_class>>
  /\ (ReadIterationCheckpoint \in precice_actions') <=>
       (ReadIterationCheckpoint \in precice_actions)

\* a step of reload_old_state_if_required: one acknowledgement of
\* read-iteration-checkpoint, in a call where it is signalled and with the
\* caller's vectors and time overwritten; none otherwise, also none when the
\* call ends with the fatal error; the snapshot and the save's action stay as
\* they were
ReloadStepAsSpecified ==
  /\ IF ReadIterationCheckpoint \in precice_actions /\ pc' = "run"
       THEN /\ Marks(calls') = <<ReadIterationCheckpoint>>
            /\ state_variables' = old_state_data
            /\ (old_time_value # <<>>) => time_class' = old_time_value[1]
            /\ ReadIterationCheckpoint \notin precice_actions'
       ELSE /\ Marks(calls') = <<>>
            /\ UNCHANGED <<state_variables, time_class, precice_actions>>
  /\ UNCHANGED <<old_state_data, old_time_value>>
  /\ (WriteIterationCheckpoint \in precice_actions') <=>
       (WriteIterationCheckpoint \in precice_actions)

\* C21: a checkpoint action is acknowledged exactly once per call in which it
\* is signalled and only with the work done: save marks
\* write-iteration-checkpoint with all vectors and the time in the snapshot,
\* restore marks read-iteration-checkpoint with all caller vectors and the time
\* overwritten; save never modifies the caller's vectors or time, restore never
\* modifies the snapshot, and neither acknowledges the other's action.
C21_AcknowledgedAfterWork ==
  [][/\ (last'.op = "save_current_state_if_required") => SaveStepAsSpecified
     /\ (last'.op = "reload_old_state_if_required") => ReloadStepAsSpecified
    ]_vars

\* a restore of two vectors while a save is signalled too: its own action is
\* acknowledged, the save's is still required
C21_Witness ==
  /\ last.op = "reload_old_state_if_required" /\ last.required /\ pc = "run"
  /\ Marks(calls) = <<ReadIterationCheckpoint>>
  /\ precice_actions = {WriteIterationCheckpoint}
  /\ checkpoint.saved /\ Len(old_state_data) = 2
  /\ state_variables = old_state_data
  /\ last.state_variables # state_variables

\* the faces on the coupling boundary of the mesh of the latest enumeration
CurrentFaces == MatchingFaces(enumerated.dof_handler)

CurrentFaceIds == {CurrentFaces[f].face_index : f \in 1..Len(CurrentFaces)}

\* right after initialize(): the handle at offset get_node_id(f) + q of
\* read_nodes_ids is the one the library returned when point q of face f was
\* registered on the read side
LookupFindsRegisteredHandle ==
  (last.op = "initialize" /\ pc = "run") =>
    LET Qw == last.write_quadrature
        Qr == last.read_quadrature
    IN \A f \in 1..Len(CurrentFaces) : \A q \in 0..(Qr - 1) :
         LET face == CurrentFaces[f]
             reg  == calls[1 + Len(CurrentFaces) * Qw + (f - 1) * Qr + q + 1]
         IN /\ face.face_index \in DOMAIN read_id_map
            /\ reg.call = "setMeshVertex"
            /\ reg.mesh = read_mesh_id
            /\ reg.vertex = QuadraturePoint(face, Qr, q)
            /\ read_id_map[face.face_index] + q < Len(read_nodes_ids)
            /\ read_nodes_ids[read_id_map[face.face_index] + q + 1] = reg.ret

\* in every state after initialize(): the buffered access at get_node_id(f) + q
\* yields what the library holds, since the last bulk read, for the handle at
\* that offset
LookupFindsDeliveredValue ==
  (precice_initialized /\ pc = "run") =>
    \A f \in 1..Len(CurrentFaces) : \A q \in 0..(enumerated.read_quadrature - 1) :
      LET face == CurrentFaces[f] IN
        /\ face.face_index \in DOMAIN read_id_map
        /\ LET ID == read_id_map[face.face_index] + q IN
             /\ InBuffer(UInt(ID))
             /\ BufferedValue(UInt(ID)) =
                  precice_data[read_data_id][read_nodes_ids[ID + 1] + 1]

\* get_node_id returns the map's offset for a face on the coupling boundary of
\* the current mesh and fails for every other face
LookupFailsOffBoundary ==
  (last.op = "get_node_id") =>
    IF last.face_id \in CurrentFaceIds
      THEN pc = "run" /\ last.ret = read_id_map[last.face_id]
      ELSE pc = "abort" /\ error = "std::out_of_range"

\* C22: for every face f on the coupling boundary and q < Qr,
\* read_nodes_ids[get_node_id(f) + q] is the handle registered for point q of
\* face f and read_on_quadrature_point_with_ID(get_node_id(f) + q) returns the
\* value the last bulk read delivered for it; get_node_id of a face that is not
\* on the coupling boundary fails.
C22_FaceLookupConsistent ==
  /\ LookupFindsRegisteredHandle
  /\ LookupFindsDeliveredValue
  /\ LookupFailsOffBoundary

\* C22 holds as long as the adapter was enumerated once
C22_FirstEnumerationOnly == (initialize_calls = 1) => C22_FaceLookupConsistent

\* the lookups of the faces of the current mesh are as C22 says after every
\* enumeration
C22_CurrentFacesOnly == LookupFindsRegisteredHandle /\ LookupFindsDeliveredValue

\* C23: whenever parse_parameters completes without error, the read and write
\* mesh names it leaves, and that the constructor hands to the adapter, both
\* differ from "default"; if 'Mesh name' was set both equal it, otherwise both
\* are as the user gave them.
C23_EffectiveMeshNames ==
  (pc \in {"construct", "run"}) =>
    /\ parameters.read_mesh_name # Default
    /\ parameters.write_mesh_name # Default
    /\ IF prm["Mesh name"] # Default
         THEN /\ parameters.read_mesh_name = prm["Mesh name"]
              /\ parameters.write_mesh_name = prm["Mesh name"]
         ELSE /\ parameters.read_mesh_name = prm["Read mesh name"]
              /\ parameters.write_mesh_name = prm["Write mesh name"]
    /\ (pc = "run") =>
         /\ read_mesh_name = parameters.read_mesh_name
         /\ write_mesh_name = parameters.write_mesh_name

\* 'Mesh name' set while the user also gave a write mesh name: the adapter is
\* handed the shared name for both
C23_Witness ==
  /\ pc = "run" /\ error = "none"
  /\ prm["Mesh name"] = "Interface"
  /\ prm["Read mesh name"] = Default
  /\ prm["Write mesh name"] = "Solid-Mesh"
  /\ read_mesh_name = "Interface" /\ write_mesh_name = "Interface"

====
